---- MODULE Spec2Model ----
(***************************************************************************)
(* A model of datacube_ows/wcs_scaler.py: SpatialParameter (the x/y        *)
(* container with label resolution) and WCSScaler (the grid scaler of one  *)
(* coverage request).                                                      *)
(*                                                                         *)
(* Numbers.  Coordinates, resolutions and bounding boxes are integers.     *)
(* A requested size or a scale factor is a rational n/d (d > 0) carried    *)
(* as a record, with a flag telling whether Python sees a float; float     *)
(* arithmetic is taken as exact arithmetic on rationals.  None is the      *)
(* empty tuple <<>> and a value v is <<v>>.                                *)
(***************************************************************************)
EXTENDS Integers, Sequences, FiniteSets, TLC

\* ------------------------------------------------------------------------
\* Bounds of the model
\* ------------------------------------------------------------------------

\* Number of calls made on one scaler (one scaler serves one request).
MaxOps == 4

\* ------------------------------------------------------------------------
\* The layer metadata the scaler reads (read-only collaborator)
\* ------------------------------------------------------------------------

None == << >>

Some(v) == << v >>

Val(o) == o[1]

Axes == {"x", "y"}

\* layer.global_cfg.published_CRSs: CRS id -> axis names as configured.
\* A is the layer's native CRS.  Configured names may hold capitals (the
\* code lower-cases them); B names its axes the other way round from A's
\* lower-cased names, C is a projected CRS whose axis names (easting,
\* northing) are no names of the native CRS and no aliases.
published_CRSs ==
    [ A |-> [horizontal_coord |-> "Lat", vertical_coord |-> "Lon"],
      B |-> [horizontal_coord |-> "lon", vertical_coord |-> "lat"],
      C |-> [horizontal_coord |-> "e",   vertical_coord |-> "n"] ]

CRSs == DOMAIN published_CRSs

native_CRS == "A"

native_CRS_def == published_CRSs[native_CRS]

\* layer.grids[crs]["resolution"] = (x resolution, y resolution).  The y
\* resolution of a north-up grid is negative; the code takes abs() of it.
grids ==
    [ A |-> [resolution |-> [x |-> 10, y |-> 10]],
      B |-> [resolution |-> [x |-> 4,  y |-> -4]],
      C |-> [resolution |-> [x |-> 10, y |-> -10]] ]

\* layer.ranges["bboxes"][crs].  The layer is 1.2 cells wide in C.
bboxes ==
    [ A |-> [left |-> 0,  right |-> 100, bottom |-> 0,  top |-> 100],
      B |-> [left |-> 20, right |-> 60,  bottom |-> 20, top |-> 60],
      C |-> [left |-> 0,  right |-> 12,  bottom |-> 0,  top |-> 100] ]

\* str.lower() on the strings of the model.
lower(s) ==
    CASE s = "Lat" -> "lat"
      [] s = "Lon" -> "lon"
      [] OTHER     -> s

\* ------------------------------------------------------------------------
\* Inputs of the calls
\* ------------------------------------------------------------------------

\* Dimension labels a caller passes.
Labels == {"x", "y", "lat", "Lat", "e"}

\* A Python number n/d; float tells whether isinstance(., float) holds.
Num(n, d, f) == [n |-> n, d |-> d, float |-> f]

\* Sizes passed to set_size: -1, 0, 0.3, 3.4, 3.5 and 2.
SizeArgs ==
    { Num(-1, 1, FALSE), Num(0, 1, FALSE), Num(3, 10, TRUE),
      Num(34, 10, TRUE), Num(35, 10, TRUE), Num(2, 1, FALSE) }

\* Sizes passed to scale_size: 0 and 2.
ScaleSizeArgs == { Num(0, 1, FALSE), Num(2, 1, FALSE) }

\* Factors passed to scale_axis: 1.0 and 0.5.
Factors == { Num(1, 1, TRUE), Num(1, 2, TRUE) }

\* Coordinates passed to slice.
SliceValues == {5, 50}

\* (lower, higher) passed to trim.
TrimRanges == { <<30, 30>>, <<10, 90>> }

\* (low, high) passed to scale_extent.
ExtentRanges == { <<0, 3>>, <<3, 0>> }

\* ------------------------------------------------------------------------
\* State
\* ------------------------------------------------------------------------

VARIABLES
    crs,          \* WCSScaler._crs
    sp_crs,       \* the CRS id the four SpatialParameters were built with
    min,          \* WCSScaler.min  : [x, y], each None or Some(v)
    max,          \* WCSScaler.max
    size,         \* WCSScaler.size
    subsetted,    \* WCSScaler.subsetted : [x, y] of BOOLEAN
    call,         \* the call made last: [op, dim, crs, a, b]
    raised,       \* the exception the last call raised, or "none"
    reprojected,  \* TRUE iff the last call used geometry's to_crs
    returned,     \* what the last call returned: None, or Some(transform)
    subset_by,    \* history: [x, y], the subsetting call made last on the axis
    repeats,      \* history: the last call repeats the successful call before it
    nops          \* calls made so far

vars ==
    << crs, sp_crs, min, max, size, subsetted, call, raised, reprojected,
       returned, subset_by, repeats, nops >>

\* The scaler as one value, as the methods see it (self).
self ==
    [ crs |-> crs, sp_crs |-> sp_crs, min |-> min, max |-> max, size |-> size,
      subsetted |-> subsetted, raised |-> "none", reprojected |-> FALSE,
      returned |-> None ]

Raise(s, exc) == [s EXCEPT !.raised = exc]

Ok(s) == s.raised = "none"

\* ------------------------------------------------------------------------
\* SpatialParameter
\* ------------------------------------------------------------------------

\* is_x_dim asking the native CRS before the published one.
is_x_dim_native_first(c, dimension) ==
    IF dimension = lower(native_CRS_def.horizontal_coord) THEN "True"
    ELSE IF dimension = lower(native_CRS_def.vertical_coord) THEN "False"
    ELSE IF dimension = lower(published_CRSs[c].horizontal_coord) THEN "True"
    ELSE IF dimension = lower(published_CRSs[c].vertical_coord) THEN "False"
    ELSE IF dimension \in {"x", "i", "lon", "long", "lng", "longitude"} THEN "True"
    ELSE IF dimension \in {"y", "j", "lat", "latitude"} THEN "False"
    ELSE "WCSScalerUnknownDimension"

\* SpatialParameter.is_x_dim of a parameter built with CRS id c: "True",
\* "False", or the exception it raises.
is_x_dim(c, dimension) ==
    IF dimension = lower(published_CRSs[c].horizontal_coord) THEN "True"
    ELSE IF dimension = lower(published_CRSs[c].vertical_coord) THEN "False"
    ELSE IF dimension = lower(native_CRS_def.horizontal_coord) THEN "True"
    ELSE IF dimension = lower(native_CRS_def.vertical_coord) THEN "False"
    ELSE IF dimension \in {"x", "i", "lon", "long", "lng", "longitude"} THEN "True"
    ELSE IF dimension \in {"y", "j", "lat", "latitude"} THEN "False"
    ELSE "WCSScalerUnknownDimension"

Resolves(c, dimension) == is_x_dim(c, dimension) \in {"True", "False"}

\* The slot is_x_dim selects.
Slot(c, dimension) == IF is_x_dim(c, dimension) = "True" THEN "x" ELSE "y"

\* SpatialParameter.__getitem__ on a label that resolves: p is the [x, y]
\* pair of the parameter.
GetItem(p, c, dim) == p[Slot(c, dim)]

\* __setitem__ writing the value to both slots, whatever the label.
SetItem_both_slots(s, f, dim, val) ==
    IF ~Resolves(s.sp_crs, dim) THEN Raise(s, "WCSScalerUnknownDimension")
    ELSE [s EXCEPT ![f] = [x |-> val, y |-> val]]

\* SpatialParameter.__setitem__ on field f (min, max, size or subsetted) of
\* scaler s: the slot is written, or is_x_dim's exception is raised.
SetItem(s, f, dim, val) ==
    IF ~Resolves(s.sp_crs, dim) THEN Raise(s, "WCSScalerUnknownDimension")
    ELSE [s EXCEPT ![f][Slot(s.sp_crs, dim)] = val]

\* SpatialParameter.set(x, y) on field f.
SetBoth(s, f, xv, yv) == [s EXCEPT ![f] = [x |-> xv, y |-> yv]]

\* ------------------------------------------------------------------------
\* WCSScaler: sizes
\* ------------------------------------------------------------------------

\* int(size): the fraction is dropped, nothing is added first.
RoundDown(n, d) == n \div d

\* int(size + 0.5) for a positive rational n/d.
RoundHalfUp(n, d) == (2 * n + d) \div (2 * d)

\* set_size storing the size before it tests whether one was set.
set_size_stores_then_tests(s, dim, sz) ==
    IF sz.n <= 0 THEN Raise(s, "WCSScalarIllegalSize")
    ELSE LET v == IF sz.float THEN RoundHalfUp(sz.n, sz.d) ELSE sz.n
         IN  IF ~Resolves(s.sp_crs, dim) THEN Raise(s, "WCSScalerUnknownDimension")
             ELSE IF GetItem(s.size, s.sp_crs, dim) = None
                  THEN SetItem(s, "size", dim, Some(v))
                  ELSE Raise(SetItem(s, "size", dim, Some(v)),
                             "WCSScalerOverspecifiedDimension")

\* set_size without the "already set" test: a second request overwrites.
set_size_overwrites(s, dim, sz) ==
    IF sz.n <= 0 THEN Raise(s, "WCSScalarIllegalSize")
    ELSE LET v == IF sz.float THEN RoundHalfUp(sz.n, sz.d) ELSE sz.n
         IN  SetItem(s, "size", dim, Some(v))

\* set_size rejecting only negative sizes (< for <=).
set_size_accepts_zero(s, dim, sz) ==
    IF sz.n < 0 THEN Raise(s, "WCSScalarIllegalSize")
    ELSE LET v == IF sz.float THEN RoundHalfUp(sz.n, sz.d) ELSE sz.n
         IN  IF ~Resolves(s.sp_crs, dim) THEN Raise(s, "WCSScalerUnknownDimension")
             ELSE IF GetItem(s.size, s.sp_crs, dim) = None
                  THEN SetItem(s, "size", dim, Some(v))
                  ELSE Raise(s, "WCSScalerOverspecifiedDimension")

\* WCSScaler.set_size(dim, size).
set_size(s, dim, sz) ==
    IF sz.n <= 0 THEN Raise(s, "WCSScalarIllegalSize")
    ELSE LET v == IF sz.float THEN RoundHalfUp(sz.n, sz.d) ELSE sz.n
         IN  IF ~Resolves(s.sp_crs, dim) THEN Raise(s, "WCSScalerUnknownDimension")
             ELSE IF GetItem(s.size, s.sp_crs, dim) = None
                  THEN SetItem(s, "size", dim, Some(v))
                  ELSE Raise(s, "WCSScalerOverspecifiedDimension")

Abs(i) == IF i < 0 THEN -i ELSE i

\* scale_axis reading the grid of the CRS the scaler was built with.
scale_axis_construction_crs(s, dimension, factor) ==
    IF ~Resolves(s.sp_crs, dimension) THEN Raise(s, "WCSScalerUnknownDimension")
    ELSE LET dim_size == GetItem(s.size, s.sp_crs, dimension)
             dim_min  == GetItem(s.min, s.sp_crs, dimension)
             dim_max  == GetItem(s.max, s.sp_crs, dimension)
             res      == grids[s.sp_crs].resolution[Slot(s.sp_crs, dimension)]
         IN  IF dim_size # None THEN Raise(s, "WCSScalerOverspecifiedDimension")
             ELSE IF dim_min = None \/ dim_max = None THEN Raise(s, "TypeError")
             ELSE set_size(s, dimension,
                           Num(Abs((Val(dim_max) - Val(dim_min)) * factor.n),
                               factor.d * Abs(res), TRUE))

\* WCSScaler.scale_axis(dimension, factor).
scale_axis(s, dimension, factor) ==
    IF ~Resolves(s.sp_crs, dimension) THEN Raise(s, "WCSScalerUnknownDimension")
    ELSE LET dim_size == GetItem(s.size, s.sp_crs, dimension)
             dim_min  == GetItem(s.min, s.sp_crs, dimension)
             dim_max  == GetItem(s.max, s.sp_crs, dimension)
             res      == grids[s.crs].resolution[Slot(s.sp_crs, dimension)]
         IN  IF dim_size # None THEN Raise(s, "WCSScalerOverspecifiedDimension")
             ELSE IF dim_min = None \/ dim_max = None THEN Raise(s, "TypeError")
             ELSE set_size(s, dimension,
                           Num(Abs((Val(dim_max) - Val(dim_min)) * factor.n),
                               factor.d * Abs(res), TRUE))

\* WCSScaler.scale_size(dimension, size).
scale_size(s, dimension, sz) == set_size(s, dimension, sz)

\* WCSScaler.scale_extent(dimension, low, high).
scale_extent(s, dimension, low, high) ==
    set_size(s, dimension, Num(high - low, 1, FALSE))

\* ------------------------------------------------------------------------
\* WCSScaler: subsetting
\* ------------------------------------------------------------------------

\* WCSScaler.slice(dimension, value).
slice(s, dimension, value) ==
    LET s1 == SetItem(s, "min", dimension, Some(value))
    IN  IF Ok(s1) THEN SetItem(s1, "max", dimension, Some(value)) ELSE s1

\* WCSScaler.trim(dimension, lower, higher).
trim(s, dimension, lo, hi) ==
    LET s1 == SetItem(s, "min", dimension, Some(lo))
    IN  IF Ok(s1) THEN SetItem(s1, "max", dimension, Some(hi)) ELSE s1

\* WCSScaler.is_slice(dim) on a label that resolves.
is_slice(s, dim) ==
    /\ GetItem(s.subsetted, s.sp_crs, dim)
    /\ GetItem(s.min, s.sp_crs, dim) = GetItem(s.max, s.sp_crs, dim)

\* ------------------------------------------------------------------------
\* The geometry capability (datacube.utils.geometry), a black box to the
\* scaler: a deterministic map between CRSs.  Here each CRS is a translate
\* of the others, anchored at the lower-left corner of its bounding box.
\* ------------------------------------------------------------------------

\* geom.to_crs(new_crs_obj) on one coordinate pair.
project(old, new, px, py) ==
    [ x |-> px + bboxes[new].left - bboxes[old].left,
      y |-> py + bboxes[new].bottom - bboxes[old].bottom ]

Least(a, b) == IF a < b THEN a ELSE b

Greatest(a, b) == IF a < b THEN b ELSE a

\* geom.to_crs(new_crs_obj).boundingbox of the line or polygon spanned by
\* the corners (x0, y0) and (x1, y1).
projected_bbox(old, new, x0, y0, x1, y1) ==
    LET p == project(old, new, x0, y0)
        q == project(old, new, x1, y1)
    IN  [ left |-> Least(p.x, q.x), right |-> Greatest(p.x, q.x),
          bottom |-> Least(p.y, q.y), top |-> Greatest(p.y, q.y) ]

\* ------------------------------------------------------------------------
\* WCSScaler: reprojection
\* ------------------------------------------------------------------------

\* quantise_dim comparing against the signed resolution (no abs).
quantise_dim_signed(s, dim, r) ==
    LET lo == GetItem(s.min, s.sp_crs, dim)
        hi == GetItem(s.max, s.sp_crs, dim)
    IN  IF lo = None \/ hi = None THEN Raise(s, "TypeError")
        ELSE IF 2 * (Val(hi) - Val(lo)) < 3 * r
             THEN SetItem(SetItem(s, "max", dim, Some(Val(lo) + r)),
                          "size", dim, Some(1))
             ELSE s

\* quantise_dim moving max on from max, not from min.
quantise_dim_from_max(s, dim, r) ==
    LET lo == GetItem(s.min, s.sp_crs, dim)
        hi == GetItem(s.max, s.sp_crs, dim)
    IN  IF lo = None \/ hi = None THEN Raise(s, "TypeError")
        ELSE IF 2 * (Val(hi) - Val(lo)) < Abs(3 * r)
             THEN SetItem(SetItem(s, "max", dim, Some(Val(hi) + r)),
                          "size", dim, Some(1))
             ELSE s

\* quantise_dim storing the resolution, not 1, as the size.
quantise_dim_size_is_res(s, dim, r) ==
    LET lo == GetItem(s.min, s.sp_crs, dim)
        hi == GetItem(s.max, s.sp_crs, dim)
    IN  IF lo = None \/ hi = None THEN Raise(s, "TypeError")
        ELSE IF 2 * (Val(hi) - Val(lo)) < Abs(3 * r)
             THEN SetItem(SetItem(s, "max", dim, Some(Val(lo) + r)),
                          "size", dim, Some(Abs(r)))
             ELSE s

\* One round of the loop of quantise_to_resolution: label dim ("x" or "y")
\* against resolution r.
quantise_dim(s, dim, r) ==
    LET lo == GetItem(s.min, s.sp_crs, dim)
        hi == GetItem(s.max, s.sp_crs, dim)
    IN  IF lo = None \/ hi = None THEN Raise(s, "TypeError")
        ELSE IF 2 * (Val(hi) - Val(lo)) < Abs(3 * r)
             THEN SetItem(SetItem(s, "max", dim, Some(Val(lo) + r)),
                          "size", dim, Some(1))
             ELSE s

\* WCSScaler.quantise_to_resolution(grid), grid = layer.grids[g].
quantise_to_resolution(s, g) ==
    LET s1 == quantise_dim(s, "x", grids[g].resolution.x)
    IN  IF Ok(s1) THEN quantise_dim(s1, "y", grids[g].resolution.y) ELSE s1

\* to_crs_prepare without the switch of self.crs in the first branch.
to_crs_prepare_keeps_crs(s, new_crs) ==
    IF s.crs = new_crs THEN s
    ELSE IF ~s.subsetted.x /\ ~s.subsetted.y
         THEN [s EXCEPT !.min = [x |-> Some(bboxes[new_crs].left),
                                 y |-> Some(bboxes[new_crs].bottom)],
                        !.max = [x |-> Some(bboxes[new_crs].right),
                                 y |-> Some(bboxes[new_crs].top)]]
    ELSE IF ~s.subsetted.x \/ ~s.subsetted.y
         THEN Raise(s, "AttributeError")
    ELSE s

\* Lines 118-136 of to_crs: the extent is prepared for the new CRS.
to_crs_prepare(s, new_crs) ==
    IF s.crs = new_crs THEN s
    ELSE IF ~s.subsetted.x /\ ~s.subsetted.y
         THEN [s EXCEPT !.min = [x |-> Some(bboxes[new_crs].left),
                                 y |-> Some(bboxes[new_crs].bottom)],
                        !.max = [x |-> Some(bboxes[new_crs].right),
                                 y |-> Some(bboxes[new_crs].top)],
                        !.crs = new_crs]
    ELSE IF ~s.subsetted.x \/ ~s.subsetted.y
         \* self.subsetted_x is no attribute of the scaler
         THEN Raise(s, "AttributeError")
    ELSE s

\* Lines 138-176 of to_crs: the extent goes through the geometry capability.
to_crs_reproject(s, new_crs) ==
    IF \E a \in Axes : s.min[a] = None \/ s.max[a] = None
    THEN Raise(s, "TypeError")
    ELSE
    LET x0 == Val(s.min.x)
        y0 == Val(s.min.y)
        x1 == Val(s.max.x)
        y1 == Val(s.max.y)
        r  == grids[new_crs].resolution
    IN  IF is_slice(s, "x") /\ is_slice(s, "y")
        THEN LET pt == project(s.crs, new_crs, x0, y0)
                 s1 == SetBoth(s, "min", Some(pt.x), Some(pt.y))
                 s2 == SetBoth(s1, "max", Some(pt.x + r.x), Some(pt.y + r.y))
                 s3 == SetBoth(s2, "size", Some(1), Some(1))
             IN  [s3 EXCEPT !.crs = new_crs, !.reprojected = TRUE]
        ELSE LET bbox == projected_bbox(s.crs, new_crs, x0, y0, x1, y1)
                 s1 == SetBoth(s, "min", Some(bbox.left), Some(bbox.bottom))
                 s2 == SetBoth(s1, "max", Some(bbox.right), Some(bbox.top))
                 s3 == quantise_to_resolution([s2 EXCEPT !.reprojected = TRUE], new_crs)
             IN  IF Ok(s3) THEN [s3 EXCEPT !.crs = new_crs] ELSE s3

\* WCSScaler.to_crs(new_crs).
to_crs(s, new_crs) ==
    LET s1 == to_crs_prepare(s, new_crs)
    IN  IF ~Ok(s1) THEN s1
        ELSE IF s1.crs # new_crs THEN to_crs_reproject(s1, new_crs)
        ELSE quantise_to_resolution(s1, new_crs)

\* ------------------------------------------------------------------------
\* WCSScaler: the affine transform
\* ------------------------------------------------------------------------

\* A rational n/d, d # 0 (a Python float of the transform).
Rat(n, d) == [n |-> n, d |-> d]

RatMul(p, q) == Rat(p.n * q.n, p.d * q.d)

RatAdd(p, q) == Rat(p.n * q.d + q.n * p.d, p.d * q.d)

RatEq(p, q) == p.n * q.d = q.n * p.d

\* The sign of p: -1, 0 or 1.
RatSign(p) ==
    IF p.n = 0 THEN 0
    ELSE IF (p.n > 0) = (p.d > 0) THEN 1
    ELSE -1

\* An affine.Affine: the matrix | a b c |
\*                              | d e f |
\*                              | 0 0 1 |
Affine_translation(xoff, yoff) ==
    [ a |-> Rat(1, 1), b |-> Rat(0, 1), c |-> xoff,
      d |-> Rat(0, 1), e |-> Rat(1, 1), f |-> yoff ]

Affine_scale(sx, sy) ==
    [ a |-> sx,        b |-> Rat(0, 1), c |-> Rat(0, 1),
      d |-> Rat(0, 1), e |-> sy,        f |-> Rat(0, 1) ]

\* Affine.__mul__: the matrix product m * k.
Affine_mul(m, k) ==
    [ a |-> RatAdd(RatMul(m.a, k.a), RatMul(m.b, k.d)),
      b |-> RatAdd(RatMul(m.a, k.b), RatMul(m.b, k.e)),
      c |-> RatAdd(RatAdd(RatMul(m.a, k.c), RatMul(m.b, k.f)), m.c),
      d |-> RatAdd(RatMul(m.d, k.a), RatMul(m.e, k.d)),
      e |-> RatAdd(RatMul(m.d, k.b), RatMul(m.e, k.e)),
      f |-> RatAdd(RatAdd(RatMul(m.d, k.c), RatMul(m.e, k.f)), m.f) ]

\* The transform applied to pixel (col, row): the point <<x, y>>.
Affine_apply(m, col, row) ==
    << RatAdd(RatAdd(RatMul(m.a, Rat(col, 1)), RatMul(m.b, Rat(row, 1))), m.c),
       RatAdd(RatAdd(RatMul(m.d, Rat(col, 1)), RatMul(m.e, Rat(row, 1))), m.f) >>

\* The transform anchored at the lower-left corner.
affine_transform_from_min(s) ==
    Affine_mul(Affine_translation(Rat(Val(s.min.x), 1), Rat(Val(s.min.y), 1)),
               Affine_scale(Rat(Val(s.max.x) - Val(s.min.x), Val(s.size.x)),
                            Rat(Val(s.min.y) - Val(s.max.y), Val(s.size.y))))

\* Lines 216-218 of affine: translation to the upper-left corner times the
\* scale by (x_scale, y_scale).
affine_transform(s) ==
    Affine_mul(Affine_translation(Rat(Val(s.min.x), 1), Rat(Val(s.max.y), 1)),
               Affine_scale(Rat(Val(s.max.x) - Val(s.min.x), Val(s.size.x)),
                            Rat(Val(s.min.y) - Val(s.max.y), Val(s.size.y))))

\* Lines 213-218 of affine: the two scales are computed and the transform
\* is returned.
affine_scales(s) ==
    IF s.min.x = None \/ s.max.x = None THEN Raise(s, "TypeError")
    ELSE IF Val(s.size.x) = 0 THEN Raise(s, "ZeroDivisionError")
    ELSE IF s.min.y = None \/ s.max.y = None THEN Raise(s, "TypeError")
    ELSE IF Val(s.size.y) = 0 THEN Raise(s, "ZeroDivisionError")
    ELSE [s EXCEPT !.returned = Some(affine_transform(s))]

\* affine() asking scale_axis for both sizes whether they are set or not.
affine_always_defaults(s) ==
    LET s1 == scale_axis(s, "x", Num(1, 1, TRUE))
        s2 == scale_axis(s1, "y", Num(1, 1, TRUE))
    IN  IF ~Ok(s1) THEN s1
        ELSE IF ~Ok(s2) THEN s2
        ELSE affine_scales(s2)

\* WCSScaler.affine().
affine(s) ==
    LET s1 == IF s.size.x = None THEN scale_axis(s, "x", Num(1, 1, TRUE)) ELSE s
        s2 == IF s1.size.y = None THEN scale_axis(s1, "y", Num(1, 1, TRUE)) ELSE s1
    IN  IF ~Ok(s1) THEN s1
        ELSE IF ~Ok(s2) THEN s2
        ELSE affine_scales(s2)

\* ------------------------------------------------------------------------
\* The state machine: one scaler, built for a request, then called
\* ------------------------------------------------------------------------

NoCall == [op |-> "__init__", dim |-> "", crs |-> "", a |-> Num(0, 1, FALSE), b |-> 0]

Call(op, dim, c, a, b) == [op |-> op, dim |-> dim, crs |-> c, a |-> a, b |-> b]

\* WCSScaler.__init__(layer, crs): crs is any published CRS (None stands for
\* the native one).
Init ==
    /\ sp_crs \in CRSs
    /\ crs = sp_crs
    /\ min = [x |-> None, y |-> None]
    /\ max = [x |-> None, y |-> None]
    /\ size = [x |-> None, y |-> None]
    /\ subsetted = [x |-> FALSE, y |-> FALSE]
    /\ call = NoCall
    /\ raised = "none"
    /\ reprojected = FALSE
    /\ returned = None
    /\ subset_by = [x |-> "none", y |-> "none"]
    /\ repeats = FALSE
    /\ nops = 0

\* The call c is made and leaves the scaler as s.
Step(c, s) ==
    /\ nops < MaxOps
    /\ nops' = nops + 1
    /\ call' = c
    /\ crs' = s.crs
    /\ sp_crs' = s.sp_crs
    /\ min' = s.min
    /\ max' = s.max
    /\ size' = s.size
    /\ subsetted' = s.subsetted
    /\ raised' = s.raised
    /\ reprojected' = s.reprojected
    /\ returned' = s.returned
    /\ subset_by' = IF c.op \in {"slice", "trim"} /\ Ok(s)
                    THEN [subset_by EXCEPT ![Slot(sp_crs, c.dim)] = c.op]
                    ELSE subset_by
    /\ repeats' = (call = c /\ raised = "none")

SetSize ==
    \E dim \in Labels, sz \in SizeArgs :
        Step(Call("set_size", dim, "", sz, 0), set_size(self, dim, sz))

ScaleSize ==
    \E dim \in Labels, sz \in ScaleSizeArgs :
        Step(Call("scale_size", dim, "", sz, 0), scale_size(self, dim, sz))

ScaleAxis ==
    \E dim \in Labels, f \in Factors :
        Step(Call("scale_axis", dim, "", f, 0), scale_axis(self, dim, f))

ScaleExtent ==
    \E dim \in Labels, r \in ExtentRanges :
        Step(Call("scale_extent", dim, "", Num(r[1], 1, FALSE), r[2]),
             scale_extent(self, dim, r[1], r[2]))

Slice ==
    \E dim \in Labels, v \in SliceValues :
        Step(Call("slice", dim, "", Num(v, 1, FALSE), v), slice(self, dim, v))

Trim ==
    \E dim \in Labels, r \in TrimRanges :
        Step(Call("trim", dim, "", Num(r[1], 1, FALSE), r[2]),
             trim(self, dim, r[1], r[2]))

ToCrs ==
    \E c \in CRSs :
        Step(Call("to_crs", "", c, Num(0, 1, FALSE), 0), to_crs(self, c))

Affine ==
    Step(Call("affine", "", "", Num(0, 1, FALSE), 0), affine(self))

Next ==
    \/ SetSize
    \/ ScaleSize
    \/ ScaleAxis
    \/ ScaleExtent
    \/ Slice
    \/ Trim
    \/ ToCrs
    \/ Affine

Spec == Init /\ [][Next]_vars

\* ------------------------------------------------------------------------
\* Vocabulary of the properties
\* ------------------------------------------------------------------------

SizeOps == {"set_size", "scale_axis", "scale_size", "scale_extent"}

LabelOps == SizeOps \cup {"slice", "trim"}

\* The call c names a label that resolves to axis a.
OnAxis(c, a) ==
    /\ c.op \in LabelOps
    /\ Resolves(sp_crs, c.dim)
    /\ Slot(sp_crs, c.dim) = a

\* The size the call c asks for is not positive (set_size and scale_size:
\* the size itself; scale_extent: high - low).
AsksNonPositive(c) ==
    \/ c.op \in {"set_size", "scale_size"} /\ c.a.n <= 0
    \/ c.op = "scale_extent" /\ c.b - c.a.n <= 0

\* ------------------------------------------------------------------------
\* C1
\* ------------------------------------------------------------------------

\* C1 as stated: when a size-setting call on an axis has succeeded, the
\* size-setting call that follows on the same axis fails with
\* OverspecifiedDimension, whatever its arguments.
C1_SecondCallAlwaysOverspecified ==
    [][\A a \in Axes :
          ( /\ call.op \in SizeOps /\ OnAxis(call, a) /\ raised = "none"
            /\ call'.op \in SizeOps /\ OnAxis(call', a) )
          => raised' = "WCSScalerOverspecifiedDimension"]_vars

\* C1, amended: a successful size-setting call leaves the axis's size set, a
\* set size is never unset, and every size-setting call on an axis whose size
\* is set fails: with IllegalSize when it asks for a size <= 0 through
\* set_size, scale_size or scale_extent, with OverspecifiedDimension otherwise.
C1_SecondCallFails ==
    [][\A a \in Axes :
          /\ (call'.op \in SizeOps /\ OnAxis(call', a) /\ raised' = "none")
                => size'[a] # None
          /\ size[a] # None => size'[a] # None
          /\ (size[a] # None /\ call'.op \in SizeOps /\ OnAxis(call', a))
                => raised' = IF AsksNonPositive(call')
                             THEN "WCSScalarIllegalSize"
                             ELSE "WCSScalerOverspecifiedDimension"]_vars

\* A scale_extent asking for a positive size is refused on an axis whose size
\* an earlier call has set.
C1_Witness ==
    /\ call.op = "scale_extent"
    /\ ~AsksNonPositive(call)
    /\ raised = "WCSScalerOverspecifiedDimension"
    /\ nops >= 2

\* ------------------------------------------------------------------------
\* C2
\* ------------------------------------------------------------------------

\* C2 as stated: once an axis's size has a value, no later operation changes
\* that value.
C2_SizeNeverChanges ==
    [][\A a \in Axes : size[a] # None => size'[a] = size[a]]_vars

\* C2, amended: once an axis's size has a value, no later set_size, scale_*,
\* slice, trim or affine changes it; to_crs either keeps it or forces it to 1.
C2_SizeChangesOnlyByToCrs ==
    [][\A a \in Axes :
          size[a] # None =>
              \/ size'[a] = size[a]
              \/ call'.op = "to_crs" /\ size'[a] = Some(1)]_vars

\* A size of 3 has come through a successful to_crs.
C2_Witness ==
    /\ call.op = "to_crs"
    /\ raised = "none"
    /\ size.x = Some(3)

\* ------------------------------------------------------------------------
\* C3
\* ------------------------------------------------------------------------

\* C3 as stated: each axis's size is unset or a strictly positive integer.
C3_SizePositive ==
    \A a \in Axes : size[a] = None \/ (Val(size[a]) \in Int /\ Val(size[a]) > 0)

\* ------------------------------------------------------------------------
\* C4
\* ------------------------------------------------------------------------

\* C4: set_size with size <= 0 fails with IllegalSize whatever the label and
\* the state, and leaves both sizes as they were.
C4_NonPositiveIsIllegal ==
    [][(call'.op = "set_size" /\ call'.a.n <= 0)
          => (raised' = "WCSScalarIllegalSize" /\ size' = size)]_vars

\* set_size("x", 0) has been refused on a scaler whose x size was already set.
C4_Witness ==
    /\ call.op = "set_size"
    /\ call.dim = "x"
    /\ call.a.n = 0
    /\ raised = "WCSScalarIllegalSize"
    /\ size.x # None

\* ------------------------------------------------------------------------
\* C5
\* ------------------------------------------------------------------------

Other(a) == IF a = "x" THEN "y" ELSE "x"

XAliases == {"x", "i", "lon", "long", "lng", "longitude"}

YAliases == {"y", "j", "lat", "latitude"}

\* The classification C5 states, on the axis names as configured.
C5_SlotAsStated(c, d) ==
    IF d = published_CRSs[c].horizontal_coord THEN "x"
    ELSE IF d = published_CRSs[c].vertical_coord THEN "y"
    ELSE IF d = native_CRS_def.horizontal_coord THEN "x"
    ELSE IF d = native_CRS_def.vertical_coord THEN "y"
    ELSE IF d \in XAliases THEN "x"
    ELSE IF d \in YAliases THEN "y"
    ELSE "unknown"

\* The same classification on the lower-cased axis names.
C5_SlotLowerCased(c, d) ==
    IF d = lower(published_CRSs[c].horizontal_coord) THEN "x"
    ELSE IF d = lower(published_CRSs[c].vertical_coord) THEN "y"
    ELSE IF d = lower(native_CRS_def.horizontal_coord) THEN "x"
    ELSE IF d = lower(native_CRS_def.vertical_coord) THEN "y"
    ELSE IF d \in XAliases THEN "x"
    ELSE IF d \in YAliases THEN "y"
    ELSE "unknown"

\* A set through a label (slice, trim) and a get-then-set through a label
\* (set_size with a positive size) touch the slot k the classification gives,
\* or fail with UnknownDimension and touch nothing when it gives none.
C5_TouchesSlot(k) ==
    /\ call'.op \in {"slice", "trim"} =>
          IF k = "unknown"
          THEN raised' = "WCSScalerUnknownDimension" /\ min' = min /\ max' = max
          ELSE /\ raised' = "none"
               /\ min'[k] = Some(IF call'.op = "slice" THEN call'.b ELSE call'.a.n)
               /\ max'[k] = Some(call'.b)
               /\ min'[Other(k)] = min[Other(k)]
               /\ max'[Other(k)] = max[Other(k)]
    /\ (call'.op = "set_size" /\ call'.a.n > 0) =>
          IF k = "unknown"
          THEN raised' = "WCSScalerUnknownDimension" /\ size' = size
          ELSE IF size[k] = None
          THEN raised' = "none" /\ size'[k] # None /\ size'[Other(k)] = size[Other(k)]
          ELSE raised' = "WCSScalerOverspecifiedDimension" /\ size' = size

\* C5 as stated: labels are classified by equality with the published CRS's
\* axis names, then the native CRS's axis names, then the alias sets, else
\* UnknownDimension; get and set touch the slot so chosen.
C5_ResolutionAsStated ==
    [][call'.op \in LabelOps
          => C5_TouchesSlot(C5_SlotAsStated(sp_crs, call'.dim))]_vars

\* C5, amended: labels are classified by equality with the lower-cased axis
\* names of the axis parameter's published CRS, then the lower-cased axis
\* names of the native CRS, then the alias sets, else UnknownDimension; get
\* and set touch the slot so chosen.
C5_ResolutionLowerCased ==
    [][call'.op \in LabelOps
          => C5_TouchesSlot(C5_SlotLowerCased(sp_crs, call'.dim))]_vars

\* On a scaler built for B, whose vertical axis is "lat" while the native
\* CRS's horizontal axis lower-cases to "lat", slice("lat", v) has written y.
C5_Witness ==
    /\ sp_crs = "B"
    /\ call.op = "slice"
    /\ call.dim = "lat"
    /\ raised = "none"
    /\ min.y = Some(call.b)
    /\ max.y = Some(call.b)
    /\ min.x = None

\* ------------------------------------------------------------------------
\* C6
\* ------------------------------------------------------------------------

\* C6 as stated: slice(d, v) leaves min = max = v and the axis subsetted, so
\* is_slice(d) holds; trim(d, lo, hi) leaves min = lo, max = hi and the axis
\* subsetted, so is_slice(d) holds exactly when lo = hi; an axis no slice or
\* trim has touched is not subsetted.
C6_SubsettingMarksAxis ==
    [][\A a \in Axes :
          /\ (call'.op = "slice" /\ OnAxis(call', a) /\ raised' = "none") =>
                /\ min'[a] = Some(call'.b)
                /\ max'[a] = Some(call'.b)
                /\ subsetted'[a]
          /\ (call'.op = "trim" /\ OnAxis(call', a) /\ raised' = "none") =>
                /\ min'[a] = Some(call'.a.n)
                /\ max'[a] = Some(call'.b)
                /\ subsetted'[a]
                /\ (subsetted'[a] /\ min'[a] = max'[a]) <=> (call'.a.n = call'.b)
          /\ subset_by'[a] = "none" => ~subsetted'[a]]_vars

\* ------------------------------------------------------------------------
\* C7
\* ------------------------------------------------------------------------

\* The lower-left and upper-right corners of layer.ranges["bboxes"][c].
BBoxMin(c) == [x |-> bboxes[c].left, y |-> bboxes[c].bottom]

BBoxMax(c) == [x |-> bboxes[c].right, y |-> bboxes[c].top]

\* to_crs is called with a CRS other than the current one on a scaler with
\* neither axis subsetted.
C7_Case ==
    /\ call'.op = "to_crs"
    /\ call'.crs # crs
    /\ ~subsetted.x
    /\ ~subsetted.y

\* C7 as stated: the call ends with the new CRS current, min = (left, bottom)
\* and max = (right, top) of the new CRS's bounding box, and no reprojection.
C7_ExtentIsBBox ==
    [][C7_Case =>
          /\ raised' = "none"
          /\ crs' = call'.crs
          /\ \A a \in Axes : /\ min'[a] = Some(BBoxMin(call'.crs)[a])
                             /\ max'[a] = Some(BBoxMax(call'.crs)[a])
          /\ ~reprojected']_vars

\* C7, amended: the call ends with the new CRS current, min = (left, bottom),
\* no reprojection, and on each axis max = the bounding box's right/top with
\* the size untouched, unless the bounding box is narrower there than 1.5
\* cells of the new grid: then max = min + resolution and the size is 1.
C7_ExtentIsQuantisedBBox ==
    [][C7_Case =>
          /\ raised' = "none"
          /\ crs' = call'.crs
          /\ ~reprojected'
          /\ \A a \in Axes :
                LET lo == BBoxMin(call'.crs)[a]
                    hi == BBoxMax(call'.crs)[a]
                    r  == grids[call'.crs].resolution[a]
                IN  /\ min'[a] = Some(lo)
                    /\ IF 2 * (hi - lo) < 3 * Abs(r)
                       THEN max'[a] = Some(lo + r) /\ size'[a] = Some(1)
                       ELSE max'[a] = Some(hi) /\ size'[a] = size[a]]_vars

\* A scaler built for A has been taken to B and holds B's bounding box.
C7_Witness ==
    /\ sp_crs = "A"
    /\ crs = "B"
    /\ call.op = "to_crs"
    /\ call.crs = "B"
    /\ raised = "none"
    /\ ~repeats
    /\ ~reprojected
    /\ min = [x |-> Some(20), y |-> Some(20)]
    /\ max = [x |-> Some(60), y |-> Some(60)]

\* ------------------------------------------------------------------------
\* C8
\* ------------------------------------------------------------------------

\* C8 as stated: when slice was the last subsetting call on both axes, x at a
\* and y at b, to_crs to a CRS other than the current one ends with size
\* (1, 1), min the reprojection of (a, b), and max one cell of the new grid
\* beyond min.
C8_SlicedPointReprojects ==
    [][( /\ subset_by.x = "slice" /\ subset_by.y = "slice"
         /\ min.x # None /\ min.y # None
         /\ min.x = max.x /\ min.y = max.y
         /\ call'.op = "to_crs" /\ call'.crs # crs )
          => LET pt == project(crs, call'.crs, Val(min.x), Val(min.y))
                 r  == grids[call'.crs].resolution
             IN  /\ raised' = "none"
                 /\ size' = [x |-> Some(1), y |-> Some(1)]
                 /\ min' = [x |-> Some(pt.x), y |-> Some(pt.y)]
                 /\ max' = [x |-> Some(pt.x + r.x), y |-> Some(pt.y + r.y)]]_vars

\* ------------------------------------------------------------------------
\* C9
\* ------------------------------------------------------------------------

\* to_crs is called with the current CRS and succeeds: quantisation alone
\* is applied, to the extent as it stands.
C9_Case ==
    /\ call'.op = "to_crs"
    /\ call'.crs = crs
    /\ raised' = "none"

\* C9 as stated: with s = max - min and r the resolution, s < 1.5 r gives
\* max = min + r and size 1, anything else leaves min, max and size alone.
C9_QuantiseSigned ==
    [][C9_Case =>
          \A a \in Axes :
              LET s == Val(max[a]) - Val(min[a])
                  r == grids[crs].resolution[a]
              IN  /\ min'[a] = min[a]
                  /\ IF 2 * s < 3 * r
                     THEN max'[a] = Some(Val(min[a]) + r) /\ size'[a] = Some(1)
                     ELSE max'[a] = max[a] /\ size'[a] = size[a]]_vars

\* C9, amended: with s = max - min and r the resolution, s < 1.5 |r| gives
\* max = min + r and size 1, anything else leaves min, max and size alone.
C9_QuantiseAbs ==
    [][C9_Case =>
          \A a \in Axes :
              LET s == Val(max[a]) - Val(min[a])
                  r == grids[crs].resolution[a]
              IN  /\ min'[a] = min[a]
                  /\ IF 2 * s < 3 * Abs(r)
                     THEN max'[a] = Some(Val(min[a]) + r) /\ size'[a] = Some(1)
                     ELSE max'[a] = max[a] /\ size'[a] = size[a]]_vars

\* In B (y resolution -4) a y extent of no width has been quantised to one
\* cell, while the wide x extent was left alone.
C9_Witness ==
    /\ crs = "B"
    /\ call.op = "to_crs"
    /\ call.crs = "B"
    /\ raised = "none"
    /\ min.y # None
    /\ max.y = Some(Val(min.y) - 4)
    /\ size.y = Some(1)
    /\ max.x = Some(Val(min.x) + 80)
    /\ size.x = None

\* ------------------------------------------------------------------------
\* C10
\* ------------------------------------------------------------------------

\* C10: a to_crs(X) that follows a successful to_crs(X) at once succeeds and
\* changes nothing.
C10_ToCrsIdempotent ==
    [][( /\ call.op = "to_crs" /\ raised = "none"
         /\ call'.op = "to_crs" /\ call'.crs = call.crs )
          => /\ raised' = "none"
             /\ crs' = crs
             /\ min' = min
             /\ max' = max
             /\ size' = size
             /\ subsetted' = subsetted]_vars

\* to_crs has been repeated on a scaler whose sliced x extent the first call
\* had quantised to one cell.
C10_Witness ==
    /\ repeats
    /\ call.op = "to_crs"
    /\ raised = "none"
    /\ subset_by.x = "slice"
    /\ min.x = Some(5)
    /\ max.x = Some(5 + grids[crs].resolution.x)
    /\ size.x = Some(1)

\* ------------------------------------------------------------------------
\* C11: the transform affine() returns
\* ------------------------------------------------------------------------

\* The last call was affine() and it returned a transform.
C11_Returned == call.op = "affine" /\ raised = "none" /\ returned # None

\* C11: the transform returned by affine() maps pixel (0, 0) to
\* (min.x, max.y) and pixel (size.x, size.y) to (max.x, min.y), has zero
\* rotation terms, satisfies x_scale * size.x = max.x - min.x and
\* y_scale * size.y = min.y - max.y, and when max > min on both axes its
\* x scale is positive and its y scale negative.
C11_TransformMapsCorners ==
    (call.op = "affine" /\ raised = "none") =>
        /\ returned # None
        /\ LET m == Val(returned)
               origin == Affine_apply(m, 0, 0)
               far == Affine_apply(m, Val(size.x), Val(size.y))
           IN  /\ RatEq(origin[1], Rat(Val(min.x), 1))
               /\ RatEq(origin[2], Rat(Val(max.y), 1))
               /\ RatEq(far[1], Rat(Val(max.x), 1))
               /\ RatEq(far[2], Rat(Val(min.y), 1))
               /\ RatSign(m.b) = 0
               /\ RatSign(m.d) = 0
               /\ RatEq(RatMul(m.a, Rat(Val(size.x), 1)),
                        Rat(Val(max.x) - Val(min.x), 1))
               /\ RatEq(RatMul(m.e, Rat(Val(size.y), 1)),
                        Rat(Val(min.y) - Val(max.y), 1))
               /\ (Val(max.x) > Val(min.x) /\ Val(max.y) > Val(min.y))
                      => (RatSign(m.a) = 1 /\ RatSign(m.e) = -1)

\* affine() returned the transform of an extent with max > min on both
\* axes whose pixels are not of unit size.
C11_Witness ==
    /\ C11_Returned
    /\ Val(max.x) > Val(min.x)
    /\ Val(max.y) > Val(min.y)
    /\ Val(max.x) - Val(min.x) # Val(size.x)
    /\ Val(max.y) - Val(min.y) # Val(size.y)

\* ------------------------------------------------------------------------
\* C12: to_crs with exactly one axis subsetted
\* ------------------------------------------------------------------------

\* Axis a alone has been sliced or trimmed and to_crs to another CRS is
\* called.
C12_Case(a) ==
    /\ subset_by[a] # "none"
    /\ subset_by[Other(a)] = "none"
    /\ call'.op = "to_crs"
    /\ call'.crs # crs

\* The extent that enters the reprojection step when axis a is carried and
\* the other axis is taken from the bounding box of CRS c.
C12_Carried(a, c) ==
    [ x0 |-> IF a = "x" THEN Val(min.x) ELSE bboxes[c].left,
      x1 |-> IF a = "x" THEN Val(max.x) ELSE bboxes[c].right,
      y0 |-> IF a = "y" THEN Val(min.y) ELSE bboxes[c].bottom,
      y1 |-> IF a = "y" THEN Val(max.y) ELSE bboxes[c].top ]

\* C12: to_crs(new_crs) to a different CRS when exactly one axis has been
\* subsetted completes without error, replaces only the other axis's
\* min/max with the layer's bounding box for new_crs and carries the
\* subsetted axis's min/max unchanged into the reprojection step: the call
\* goes through the reprojection and the new lower corner is that of the
\* reprojected carried extent.
C12_OneAxisCarried ==
    [][\A a \in Axes :
          C12_Case(a) =>
              /\ raised' = "none"
              /\ reprojected'
              /\ crs' = call'.crs
              /\ LET e == C12_Carried(a, call'.crs)
                     bbox == projected_bbox(crs, call'.crs, e.x0, e.y0, e.x1, e.y1)
                 IN  /\ min'.x = Some(bbox.left)
                     /\ min'.y = Some(bbox.bottom)]_vars

\* ------------------------------------------------------------------------
\* C13: labels and the CRS in effect
\* ------------------------------------------------------------------------

\* The axis label d names in the scaler's current CRS (the one of
\* construction, or the one the last successful to_crs switched to), the
\* names taken lower-cased as is_x_dim takes them.
C13_CurrentSlot(d) ==
    IF d = lower(published_CRSs[crs].horizontal_coord) THEN "x"
    ELSE IF d = lower(published_CRSs[crs].vertical_coord) THEN "y"
    ELSE "unknown"

\* C13: labels are resolved against the CRS currently in effect: after a
\* successful to_crs(X) a label equal to X's horizontal coordinate name is
\* resolved to the x axis and X's vertical coordinate name to the y axis by
\* every label-taking call, also when the name is no axis name of the
\* native CRS and no alias.
C13_LabelsFollowCurrentCrs ==
    [][(call'.op \in LabelOps /\ C13_CurrentSlot(call'.dim) # "unknown")
          => C5_TouchesSlot(C13_CurrentSlot(call'.dim))]_vars

\* ------------------------------------------------------------------------
\* C14: affine() defaults the unset sizes
\* ------------------------------------------------------------------------

\* k is v / r rounded to the nearest integer, halves up (v >= 0, r > 0).
IsNearest(k, v, r) == 2 * k * r - r <= 2 * v /\ 2 * v < 2 * k * r + r

\* The size k is the extent of axis a over the resolution of the current
\* CRS on that axis, rounded.
C14_IsDefault(k, a) ==
    /\ min[a] # None
    /\ max[a] # None
    /\ IsNearest(k, Abs(Val(max[a]) - Val(min[a])), Abs(grids[crs].resolution[a]))

\* C14: affine() defaults only unset sizes.  A size that was set is kept;
\* a size that was unset becomes the extent over the resolution of the
\* current CRS, rounded (what scale_axis(axis, 1.0) gives), or stays unset
\* when the call fails before setting it; affine() never raises
\* OverspecifiedDimension.
C14_AffineDefaultsUnsetSizes ==
    [][call'.op = "affine" =>
          /\ raised' # "WCSScalerOverspecifiedDimension"
          /\ \A a \in Axes :
                IF size[a] # None
                THEN size'[a] = size[a]
                ELSE \/ size'[a] # None /\ C14_IsDefault(Val(size'[a]), a)
                     \/ size'[a] = None /\ raised' # "none"]_vars

\* affine() returned with the x size as it was set before (it is not the
\* default) and the y size defaulted to more than one cell.
C14_Witness ==
    /\ C11_Returned
    /\ ~C14_IsDefault(Val(size.x), "x")
    /\ C14_IsDefault(Val(size.y), "y")
    /\ Val(size.y) > 1

\* ------------------------------------------------------------------------
\* C15: the size scale_axis computes
\* ------------------------------------------------------------------------

\* scale_axis is called on axis a, whose size is unset and whose min and
\* max are established.
C15_Case(a) ==
    /\ call'.op = "scale_axis"
    /\ OnAxis(call', a)
    /\ size[a] = None
    /\ min[a] # None
    /\ max[a] # None

\* Numerator and denominator of |(max - min) * factor / res| on axis a, res
\* the resolution of the current CRS on that axis.
C15_Numerator(a) == Abs((Val(max[a]) - Val(min[a])) * call'.a.n)

C15_Denominator(a) == Abs(call'.a.d * grids[crs].resolution[a])

\* C15 as stated: scale_axis on an axis with unset size and established
\* min/max sets the size to |(max - min) * factor / res| rounded to the
\* nearest integer, res the resolution of the current CRS on that axis.
C15_SizeIsScaledExtent ==
    [][\A a \in Axes :
          C15_Case(a) =>
              /\ size'[a] # None
              /\ IsNearest(Val(size'[a]), C15_Numerator(a), C15_Denominator(a))]_vars

\* C15, amended: when (max - min) * factor is not zero the size is set as
\* stated; when it is zero the call fails with IllegalSize and no size
\* changes.
C15_SizeIsScaledExtentUnlessZero ==
    [][\A a \in Axes :
          C15_Case(a) =>
              IF C15_Numerator(a) = 0
              THEN raised' = "WCSScalarIllegalSize" /\ size' = size
              ELSE /\ raised' = "none"
                   /\ size'[a] # None
                   /\ IsNearest(Val(size'[a]), C15_Numerator(a), C15_Denominator(a))
                   /\ size'[Other(a)] = size[Other(a)]]_vars

\* scale_axis with factor 0.5 has set the x size of a scaler that to_crs
\* moved to a CRS whose x resolution differs from the one of the CRS of
\* construction: the size is the extent over twice the current resolution.
C15_Witness ==
    /\ call.op = "scale_axis"
    /\ raised = "none"
    /\ call.a = Num(1, 2, TRUE)
    /\ Resolves(sp_crs, call.dim)
    /\ Slot(sp_crs, call.dim) = "x"
    /\ Abs(grids[crs].resolution.x) # Abs(grids[sp_crs].resolution.x)
    /\ IsNearest(Val(size.x), Val(max.x) - Val(min.x), 2 * Abs(grids[crs].resolution.x))
    /\ Val(size.x) > 1

\* ------------------------------------------------------------------------
\* C16: rounding of a requested size
\* ------------------------------------------------------------------------

\* C16: set_size with a positive size on an axis whose size is unset stores
\* a fractional (float) size as the nearest integer, halves rounded up
\* (floor(size + 0.5)): 3.4 is stored as 3 and 3.5 as 4; an integer size is
\* stored unchanged.
C16_StoredSizeIsRounded ==
    [][\A a \in Axes :
          (/\ call'.op \in {"set_size", "scale_size"}
           /\ OnAxis(call', a)
           /\ call'.a.n > 0
           /\ size[a] = None) =>
              /\ raised' = "none"
              /\ size'[a] # None
              /\ IF call'.a.float
                 THEN IsNearest(Val(size'[a]), call'.a.n, call'.a.d)
                 ELSE Val(size'[a]) = call'.a.n
              /\ call'.a = Num(34, 10, TRUE) => size'[a] = Some(3)
              /\ call'.a = Num(35, 10, TRUE) => size'[a] = Some(4)]_vars

\* set_size(x, 3.5) has stored 4.
C16_Witness ==
    /\ call.op = "set_size"
    /\ call.a = Num(35, 10, TRUE)
    /\ raised = "none"
    /\ Resolves(sp_crs, call.dim)
    /\ Slot(sp_crs, call.dim) = "x"
    /\ size.x = Some(4)

\* ------------------------------------------------------------------------
\* C17: the errors a call can end in
\* ------------------------------------------------------------------------

\* The three errors of the scaler.
ScalerErrors ==
    { "WCSScalerUnknownDimension", "WCSScalerOverspecifiedDimension",
      "WCSScalarIllegalSize" }

\* C17: from a newly constructed scaler and under any sequence of calls,
\* every call either completes or fails with UnknownDimension,
\* OverspecifiedDimension or IllegalSize; no call fails in any other way.
C17_OnlyScalerErrors == raised \in {"none"} \cup ScalerErrors

\* ------------------------------------------------------------------------
\* C18: what a failed call leaves behind
\* ------------------------------------------------------------------------

\* A size-setting call or affine() has failed with one of the scaler's
\* errors.
C18_Case ==
    /\ call'.op \in SizeOps \cup {"affine"}
    /\ raised' \in ScalerErrors

\* C18 as stated: when set_size, scale_size, scale_axis, scale_extent or
\* affine fails with OverspecifiedDimension, IllegalSize or
\* UnknownDimension, the current CRS and the min, max, size and subsetted
\* values of both axes are the same as before the call.
C18_ErrorsLeaveScalerUntouched ==
    [][C18_Case =>
          /\ crs' = crs
          /\ min' = min
          /\ max' = max
          /\ size' = size
          /\ subsetted' = subsetted]_vars

\* C18, amended: such a failure leaves the current CRS, min, max, subsetted
\* and the y size as before the call; the x size too, except that affine()
\* failing on the y axis after it has defaulted the x axis leaves the x
\* size at its default.
C18_ErrorsKeepAllButDefaultedX ==
    [][C18_Case =>
          /\ crs' = crs
          /\ min' = min
          /\ max' = max
          /\ size'.y = size.y
          /\ subsetted' = subsetted
          /\ \/ size'.x = size.x
             \/ /\ call'.op = "affine"
                /\ size.x = None
                /\ size.y = None
                /\ size'.x # None
                /\ C14_IsDefault(Val(size'.x), "x")]_vars

\* affine() has failed with IllegalSize on the y axis, whose extent is
\* zero, and the x size stands at the default of an x extent that is not
\* zero.
C18_Witness ==
    /\ call.op = "affine"
    /\ raised = "WCSScalarIllegalSize"
    /\ size.y = None
    /\ min.y = max.y
    /\ size.x # None
    /\ min.x # max.x
    /\ C14_IsDefault(Val(size.x), "x")

\* ------------------------------------------------------------------------
\* C19: what a call on one axis leaves alone
\* ------------------------------------------------------------------------

\* C19: slice and trim on one axis change only that axis's min and max
\* (and subsetted flag): the other axis's min, max and subsetted flag, both
\* sizes and the current CRS are unchanged; a successful set_size,
\* scale_size, scale_axis or scale_extent on one axis changes only that
\* axis's size.
C19_OtherAxisUnchanged ==
    [][\A a \in Axes :
          /\ (call'.op \in {"slice", "trim"} /\ OnAxis(call', a)) =>
                /\ min'[Other(a)] = min[Other(a)]
                /\ max'[Other(a)] = max[Other(a)]
                /\ subsetted'[Other(a)] = subsetted[Other(a)]
                /\ size' = size
                /\ crs' = crs
          /\ (call'.op \in SizeOps /\ OnAxis(call', a) /\ raised' = "none") =>
                /\ size'[Other(a)] = size[Other(a)]
                /\ min' = min
                /\ max' = max
                /\ subsetted' = subsetted
                /\ crs' = crs]_vars

\* trim has written the y axis of a scaler whose x axis holds another
\* extent and a size, in a CRS other than the one of construction.
C19_Witness ==
    /\ call.op = "trim"
    /\ raised = "none"
    /\ Resolves(sp_crs, call.dim)
    /\ Slot(sp_crs, call.dim) = "y"
    /\ min.y = Some(call.a.n)
    /\ max.y = Some(call.b)
    /\ min.x # None
    /\ min.x # min.y
    /\ max.x # max.y
    /\ size.x # None
    /\ crs # sp_crs

====
